---- MODULE Spec2Model ----
(***************************************************************************)
(* Task lifecycle of the Codegen agent integrations:                       *)
(*   - CodegenTask / Agent / CodegenAgent   (fastmcp/contrib/codegen_agent) *)
(*   - CodegenMCPCallable                   (codegen_mcp_callable.py)       *)
(*   - execute_agent_task and the endpoints (mcp_server.py)                 *)
(*   - run_codegen_task                     (codegen_mcp_server.py)         *)
(*   - run_codegen_agent                    (examples/codegen_agent_server) *)
(*                                                                         *)
(* Encoding of Python values.  Every text (message, result, identifier) is *)
(* a sequence of string tokens, so that formatting an f-string is the      *)
(* concatenation the code performs.  None and the empty string are the     *)
(* empty sequence (both are falsy in `x or default`).  A timestamp is <<>> *)
(* (None) or <<t>> (a clock reading).  Statuses are plain strings.         *)
(***************************************************************************)
EXTENDS Naturals, Sequences, FiniteSets

\* ------------------------------------------------------------------ bounds
MaxTimeout == 5
MaxPolls == 3
MaxWait == 3

\* ------------------------------------------------------- program constants
\* time.sleep(2) / asyncio.sleep(2) between two polls
SleepSeconds == 2

\* ------------------------------------------------------------------ values
None == <<>>

\* the concurrent lifecycle calls (requests, threads) of one program
Calls == {"c1", "c2"}

\* TaskStatus of agent.py
Statuses == {"pending", "running", "completed", "failed", "error"}

\* the statuses after which a task makes no further progress
TerminalStatuses == {"completed", "failed", "error"}

\* results and error texts a backend may send, texts an exception may carry
Results == {<<"R1">>, <<"R2">>}
Errors == {<<"boom">>}
ExcTexts == {<<"E1">>, <<"E2">>}

\* class CodegenApiError(Exception): str(e) is e.message
CodegenApiError(message, status_code) ==
    [cls |-> "CodegenApiError", message |-> message, status_code |-> status_code]

\* any other exception raised by a collaborator, Exception(text)
PyException(text) ==
    [cls |-> "Exception", message |-> text, status_code |-> None]

\* ValueError(text)
ValueError(text) ==
    [cls |-> "ValueError", message |-> text, status_code |-> None]

\* str(e)
Str(e) == e.message

\* x or default
Or(x, default) == IF x = None THEN default ELSE x

\* ----------------------------------------------------------- CodegenTask
\* CodegenTask.__init__ ; agent is "none" (no agent), "mock" (agent.mock_mode)
\* or "live".  The attribute holding the identifier is task_id; the object has
\* no attribute named id.
CodegenTask(task_id, agent) ==
    [task_id |-> task_id, id |-> None, status |-> "pending",
     result |-> None, error |-> None, agent |-> agent]

\* variant: the simulated update completes a pending task at once
MockRefresh_OneStep(t) ==
    IF t.status \in {"pending", "running"}
    THEN [t EXCEPT !.status = "completed",
                   !.result = <<"Simulated result for task ">> \o t.task_id]
    ELSE t

\* the simulated status update of mock mode
MockRefresh(t) ==
    IF t.status = "pending" THEN [t EXCEPT !.status = "running"]
    ELSE IF t.status = "running"
         THEN [t EXCEPT !.status = "completed",
                        !.result = <<"Simulated result for task ">> \o t.task_id]
         ELSE t

\* What GET /agents/tasks/{task_id} can come back with.  kind: the request
\* failed (httpx.RequestError), the status code is not 200, the body is not
\* JSON, or a 200 with a JSON object.  A key of the object is <<>> when absent
\* and <<v>> when present with value v.
PollResponses ==
    [kind : {"request_error"}, code : {None}, text : ExcTexts,
     status : {None}, result : {None}, error : {None}]
    \cup
    [kind : {"non200"}, code : {<<"500">>}, text : {<<"down">>},
     status : {None}, result : {None}, error : {None}]
    \cup
    [kind : {"bad_json"}, code : {<<"200">>}, text : {<<"not json">>},
     status : {None}, result : {None}, error : {None}]
    \cup
    [kind : {"ok"}, code : {<<"200">>}, text : {None},
     status : {None} \cup {<<s>> : s \in Statuses},
     result : {None} \cup {<<r>> : r \in Results},
     error : {None} \cup {<<m>> : m \in Errors}]

\* dict.get(key, default) on a decoded key
Get(field, default) == IF field = None THEN default ELSE field[1]

\* The body of Agent.refresh_task_sync / Agent.refresh_task for a live agent:
\* [task |-> the task afterwards, raised |-> None or the exception raised].
\* A CodegenApiError raised inside the try block is caught by the trailing
\* `except Exception` and raised again as a new CodegenApiError.
LiveRefresh(t, resp) ==
    IF resp.kind = "request_error"
    THEN [http |-> TRUE, task |-> t,
          raised |-> <<CodegenApiError(<<"Error connecting to Codegen API: ">> \o resp.text, None)>>]
    ELSE IF resp.kind = "non200"
    THEN [http |-> TRUE, task |-> t,
          raised |-> <<CodegenApiError(<<"Unexpected error refreshing task: ",
                                         "Error refreshing task: ">>
                                       \o resp.code \o <<" - ">> \o resp.text, None)>>]
    ELSE IF resp.kind = "bad_json"
    THEN [http |-> TRUE, task |-> t,
          raised |-> <<CodegenApiError(<<"Unexpected error refreshing task: ">> \o resp.text, None)>>]
    ELSE LET st == Get(resp.status, t.status)
             t1 == [t EXCEPT !.status = st]
             t2 == IF st = "completed"
                   THEN [t1 EXCEPT !.result = Get(resp.result, None)]
                   ELSE IF st \in {"failed", "error"}
                        THEN [t1 EXCEPT !.error = Get(resp.error, <<"Unknown error">>)]
                        ELSE t1
         IN [http |-> TRUE, task |-> t2, raised |-> None]

\* variant: a poll that fails marks the task as error before it raises
LiveRefreshAsync_FailureMarksError(t, resp) ==
    IF resp.kind # "ok"
    THEN [http |-> TRUE, task |-> [t EXCEPT !.status = "error"],
          raised |-> LiveRefresh(t, resp).raised]
    ELSE LiveRefresh(t, resp)

\* variant: the awaitable refresh copies the status and nothing else
LiveRefreshAsync_StatusOnly(t, resp) ==
    [http |-> TRUE, task |-> [t EXCEPT !.status = Get(resp.status, t.status)],
     raised |-> None]

\* The body of Agent.refresh_task, the awaitable variant, for a live agent.
LiveRefreshAsync(t, resp) ==
    IF resp.kind = "request_error"
    THEN [http |-> TRUE, task |-> t,
          raised |-> <<CodegenApiError(<<"Error connecting to Codegen API: ">> \o resp.text, None)>>]
    ELSE IF resp.kind = "non200"
    THEN [http |-> TRUE, task |-> t,
          raised |-> <<CodegenApiError(<<"Unexpected error refreshing task: ",
                                         "Error refreshing task: ">>
                                       \o resp.code \o <<" - ">> \o resp.text, None)>>]
    ELSE IF resp.kind = "bad_json"
    THEN [http |-> TRUE, task |-> t,
          raised |-> <<CodegenApiError(<<"Unexpected error refreshing task: ">> \o resp.text, None)>>]
    ELSE LET st == Get(resp.status, t.status)
             t1 == [t EXCEPT !.status = st]
             t2 == IF st = "completed"
                   THEN [t1 EXCEPT !.result = Get(resp.result, None)]
                   ELSE IF st \in {"failed", "error"}
                        THEN [t1 EXCEPT !.error = Get(resp.error, <<"Unknown error">>)]
                        ELSE t1
         IN [http |-> TRUE, task |-> t2, raised |-> None]

\* Agent.refresh_task_sync
refresh_task_sync(t, resp) ==
    IF t.agent = "mock" THEN [http |-> FALSE, task |-> MockRefresh(t), raised |-> None]
    ELSE LiveRefresh(t, resp)

\* variant: refresh_task without its mock_mode branch
refresh_task_NoMockBranch(t, resp) == LiveRefreshAsync(t, resp)

\* Agent.refresh_task (the awaitable variant)
refresh_task(t, resp) ==
    IF t.agent = "mock" THEN [http |-> FALSE, task |-> MockRefresh(t), raised |-> None]
    ELSE LiveRefreshAsync(t, resp)

\* CodegenTask.refresh_sync
refresh_sync(t, resp) ==
    IF t.agent # "none" THEN refresh_task_sync(t, resp)
    ELSE [http |-> FALSE, task |-> MockRefresh(t), raised |-> None]

\* CodegenTask.refresh
refresh(t, resp) ==
    IF t.agent # "none" THEN refresh_task(t, resp)
    ELSE [http |-> FALSE, task |-> MockRefresh(t), raised |-> None]

\* ------------------------------------------------ the codegen SDK (opaque)
\* codegen_mcp_callable.py, mcp_server.py and codegen_mcp_server.py import
\* Agent from the codegen SDK; examples/codegen_agent_server.py imports an
\* Agent its tests replace.  The SDK is an input of the model: agent.run
\* raises or returns a task, task.refresh() raises or sets the task's fields
\* to what the backend reports.
SdkSubmitAnswers ==
    [kind : {"raise"}, text : ExcTexts] \cup [kind : {"ok"}, text : {None}]

SdkPollAnswers ==
    [kind : {"raise"}, text : ExcTexts, status : {"raise"}, result : {None}, error : {None}]
    \cup [kind : {"ok"}, text : {None}, status : {"pending", "running"},
          result : {None}, error : {None}]
    \cup [kind : {"ok"}, text : {None}, status : {"completed"},
          result : Results, error : {None}]
    \cup [kind : {"ok"}, text : {None}, status : {"failed", "error"},
          result : {None}, error : Errors \cup {None}]

\* the task object agent.run returns: pending, with an attribute id or not
SdkTask(c, has_id) ==
    [task_id |-> None, id |-> IF has_id THEN <<"task-", c>> ELSE None,
     status |-> "pending", result |-> None, error |-> None, agent |-> "sdk"]

\* task.refresh() of the SDK
SdkRefresh(t, ans) ==
    IF ans.kind = "raise"
    THEN [task |-> t, raised |-> <<PyException(ans.text)>>]
    ELSE [task |-> [t EXCEPT !.status = ans.status, !.result = ans.result,
                             !.error = ans.error],
          raised |-> None]

\* -------------------------------------------------------------- templates
\* A template is a sequence of tokens; the token "{context}" is the
\* substitution point of str.format(context=...).
CONTEXT == "{context}"

\* the six templates of codegen_mcp_callable.py
DefaultTemplates ==
    [k \in {"pr_creation", "linear_issues", "code_generation",
            "data_analysis", "documentation", "testing_strategy"} |->
        <<k, CONTEXT>>]

\* template.format(context=context): every "{context}" token is replaced
RECURSIVE Format(_, _)
Format(template, context) ==
    IF template = <<>> THEN <<>>
    ELSE (IF Head(template) = CONTEXT THEN context ELSE <<Head(template)>>)
         \o Format(Tail(template), context)

\* prompt += f"\n\nAdditional Parameters: {json.dumps(additional_params)}"
WithParams(prompt, additional_params) ==
    IF additional_params # None
    THEN prompt \o <<"Additional Parameters: ">> \o additional_params
    ELSE prompt

\* What a template operation leaves: the templates dict, what it returned and
\* the exception it raised (<<e>>, or None).
\*
\* get_template(template_key)
GetTemplate(tm, template_key) ==
    IF template_key \notin DOMAIN tm
    THEN [templates |-> tm, returned |-> None,
          raised |-> <<ValueError(<<"Unknown template key: ", template_key>>)>>]
    ELSE [templates |-> tm, returned |-> tm[template_key], raised |-> None]

\* self.templates[template_key] = template
Store(tm, template_key, template) ==
    [k \in DOMAIN tm \cup {template_key} |->
        IF k = template_key THEN template ELSE tm[k]]

\* set_template(template_key, template)
SetTemplate(tm, template_key, template) ==
    [templates |-> Store(tm, template_key, template),
     returned |-> None, raised |-> None]

\* variant: add_template stores the template whether or not the key exists
AddTemplate_Overwrites(tm, template_key, template) ==
    [templates |-> Store(tm, template_key, template),
     returned |-> None, raised |-> None]

\* add_template(template_key, template)
AddTemplate(tm, template_key, template) ==
    IF template_key \in DOMAIN tm
    THEN [templates |-> tm, returned |-> None,
          raised |-> <<ValueError(<<"Template key '", template_key,
                                   "' already exists. Use set_template to update it.">>)>>]
    ELSE [templates |-> Store(tm, template_key, template),
          returned |-> None, raised |-> None]

\* the list default_templates of delete_template
default_templates ==
    {"pr_creation", "linear_issues", "code_generation",
     "data_analysis", "documentation", "testing_strategy"}

\* variant: delete_template without the test for the default keys
DeleteTemplate_Unprotected(tm, template_key) ==
    IF template_key \notin DOMAIN tm
    THEN [templates |-> tm, returned |-> None,
          raised |-> <<ValueError(<<"Unknown template key: ", template_key>>)>>]
    ELSE [templates |-> [k \in DOMAIN tm \ {template_key} |-> tm[k]],
          returned |-> None, raised |-> None]

\* delete_template(template_key)
DeleteTemplate(tm, template_key) ==
    IF template_key \notin DOMAIN tm
    THEN [templates |-> tm, returned |-> None,
          raised |-> <<ValueError(<<"Unknown template key: ", template_key>>)>>]
    ELSE IF template_key \in default_templates
    THEN [templates |-> tm, returned |-> None,
          raised |-> <<ValueError(<<"Cannot delete default template: ", template_key>>)>>]
    ELSE [templates |-> [k \in DOMAIN tm \ {template_key} |-> tm[k]],
          returned |-> None, raised |-> None]

\* ------------------------------------------------------------ one call
\* A call: pc (idle, scheduled, loop, sleep, done), the task object it holds,
\* what it returned, the wall clock since it started, its poll history, the
\* prompt it submitted, the function it runs, whether agent.run failed, the
\* exception the backend client raised in it (<<e>>, or None), how many times
\* it called agent.run, whether it constructed an Agent, the validation
\* that rejected it ("": none), the name of the endpoint or tool the caller
\* invoked (None: the function was called directly) and the template key the
\* endpoint or tool passed on.
\*
\* What a lifecycle call has returned or raised.
\*   kind "none"   : still running
\*   kind "result" : returned task.result itself
\*   kind "dict"   : returned a dict with a status and a message / result
\*   kind "raise"  : an exception left the function
NoOutcome == [kind |-> "none", status |-> "", result |-> None, message |-> None]
ReturnedResult(r) == [kind |-> "result", status |-> "", result |-> r, message |-> None]
ReturnedDict(st, r, m) == [kind |-> "dict", status |-> st, result |-> r, message |-> m]
Raised(m) == [kind |-> "raise", status |-> "", result |-> None, message |-> m]

NoTask == [task_id |-> None, id |-> None, status |-> "none",
           result |-> None, error |-> None, agent |-> "none"]

IdleCall ==
    [pc |-> "idle", task |-> NoTask, outcome |-> NoOutcome, elapsed |-> 0,
     log |-> <<>>, polls |-> 0, prompt |-> None, fn |-> "",
     submit_failed |-> FALSE, raised |-> None,
     submits |-> 0, constructed |-> FALSE, rejected |-> "",
     tool |-> None, key |-> ""]

\* agent = Agent(org_id=..., token=...): the call constructs its backend client
Construct(cl) == [cl EXCEPT !.constructed = TRUE]

\* agent.run(prompt) is called with the rendered prompt
Submit(cl, prompt) == [cl EXCEPT !.prompt = prompt, !.submits = @ + 1]

\* The poll history of a call is kept as long as it follows the lifecycle
\* scenario pending, running, completed; any other history is <<"other">>.
LifecycleScript == <<"pending", "running", "completed">>
Logged(log, st) ==
    IF /\ log # <<"other">>
       /\ Len(log) < Len(LifecycleScript)
       /\ LifecycleScript[Len(log) + 1] = st
    THEN Append(log, st)
    ELSE <<"other">>

\* the number of polls of a call, counted up to MaxPolls
Counted(polls) == IF polls < MaxPolls THEN polls + 1 ELSE polls

\* ------------------------------------------------- CodegenMCPCallable
\* a task_info dict of task_history; status "absent": not created
NoInfo == [task_id |-> None, template_key |-> "", context_length |-> 0,
           timestamp |-> None, status |-> "absent"]

\* getattr(task, 'id', 'unknown')
GetattrId(t) == IF t.id = None THEN <<"unknown">> ELSE t.id

\* variant: the key is looked up only after agent.run was called
ExecuteTemplateUnknown_AfterSubmit(cl, key) ==
    [cl EXCEPT !.pc = "done", !.rejected = "template", !.submits = @ + 1,
               !.outcome = Raised(<<"Unknown template key: ", key>>)]

\* if template_key not in self.templates: raise ValueError(...)
ExecuteTemplateUnknown(cl, key) ==
    [cl EXCEPT !.pc = "done", !.rejected = "template",
               !.outcome = Raised(<<"Unknown template key: ", key>>)]

\* variant: the handler calls agent.run once more before it returns
ExecuteTemplateExcept_Retry(cl, e) ==
    [cl EXCEPT !.pc = "done", !.raised = <<e>>, !.submits = @ + 1,
               !.outcome = ReturnedDict("error", None, Str(e))]

\* variant: the handler returns a fixed message instead of str(e)
ExecuteTemplateExcept_FixedMessage(cl, e) ==
    [cl EXCEPT !.pc = "done", !.raised = <<e>>,
               !.outcome = ReturnedDict("error", None, <<"Unknown error">>)]

\* except Exception as e: return {"status": "error", "message": str(e)}
ExecuteTemplateExcept(cl, e) ==
    [cl EXCEPT !.pc = "done", !.raised = <<e>>,
               !.outcome = ReturnedDict("error", None, Str(e))]

\* variant: the completed branch returns without the result of the task
ExecuteTemplateCompleted_NoResult(cl, info) ==
    [call |-> [cl EXCEPT !.pc = "done", !.outcome = ReturnedResult(None)],
     info |-> [info EXCEPT !.status = "completed", !.timestamp = <<cl.elapsed>>]]

\* if task.status == "completed": ... return task.result
ExecuteTemplateCompleted(cl, info) ==
    [call |-> [cl EXCEPT !.pc = "done", !.outcome = ReturnedResult(cl.task.result)],
     info |-> [info EXCEPT !.status = "completed", !.timestamp = <<cl.elapsed>>]]

\* if task.status == "failed": ... return {"status": "failed", "message": error_msg}
ExecuteTemplateFailed(cl, info) ==
    [call |-> [cl EXCEPT !.pc = "done",
                 !.outcome = ReturnedDict("failed", None,
                     <<"Task ">> \o info.task_id \o <<" failed with status: ", cl.task.status>>)],
     info |-> [info EXCEPT !.status = "failed", !.timestamp = <<cl.elapsed>>]]

\* variant: the code after the loop marks the entry completed
ExecuteTemplateTimedOut_MarksCompleted(cl, info) ==
    [call |-> [cl EXCEPT !.pc = "done",
                 !.outcome = ReturnedDict("timeout", None,
                     <<"Task ">> \o info.task_id \o <<" timed out">>)],
     info |-> [info EXCEPT !.status = "completed", !.timestamp = <<cl.elapsed>>]]

\* after the loop: the task timed out
ExecuteTemplateTimedOut(cl, info) ==
    [call |-> [cl EXCEPT !.pc = "done",
                 !.outcome = ReturnedDict("timeout", None,
                     <<"Task ">> \o info.task_id \o <<" timed out">>)],
     info |-> [info EXCEPT !.status = "timeout", !.timestamp = <<cl.elapsed>>]]

\* One pass of `while time.time() - start_time < self.timeout`, up to and
\* including time.sleep(2), or the code after the loop.
ExecuteTemplateIterate(cl, info, ans, tmo) ==
    IF cl.elapsed < tmo
    THEN LET r == SdkRefresh(cl.task, ans)
             c1 == [cl EXCEPT !.task = r.task, !.log = Logged(cl.log, ans.status),
                           !.polls = Counted(cl.polls)]
         IN IF r.raised # None
            THEN [call |-> ExecuteTemplateExcept(c1, r.raised[1]), info |-> info]
            ELSE IF r.task.status = "completed" THEN ExecuteTemplateCompleted(c1, info)
            ELSE IF r.task.status = "failed" THEN ExecuteTemplateFailed(c1, info)
            ELSE [call |-> [c1 EXCEPT !.elapsed = cl.elapsed + SleepSeconds],
                  info |-> info]
    ELSE ExecuteTemplateTimedOut(cl, info)

\* execute_custom_template repeats the body of _execute_template.
\* except Exception as e: return {"status": "error", "message": str(e)}
ExecuteCustomTemplateExcept(cl, e) ==
    [cl EXCEPT !.pc = "done", !.raised = <<e>>,
               !.outcome = ReturnedDict("error", None, Str(e))]

\* if task.status == "completed": ... return task.result
ExecuteCustomTemplateCompleted(cl, info) ==
    [call |-> [cl EXCEPT !.pc = "done", !.outcome = ReturnedResult(cl.task.result)],
     info |-> [info EXCEPT !.status = "completed", !.timestamp = <<cl.elapsed>>]]

\* if task.status == "failed": ... return {"status": "failed", "message": error_msg}
ExecuteCustomTemplateFailed(cl, info) ==
    [call |-> [cl EXCEPT !.pc = "done",
                 !.outcome = ReturnedDict("failed", None,
                     <<"Task ">> \o info.task_id \o <<" failed with status: ", cl.task.status>>)],
     info |-> [info EXCEPT !.status = "failed", !.timestamp = <<cl.elapsed>>]]

\* after the loop: the task timed out
ExecuteCustomTemplateTimedOut(cl, info) ==
    [call |-> [cl EXCEPT !.pc = "done",
                 !.outcome = ReturnedDict("timeout", None,
                     <<"Task ">> \o info.task_id \o <<" timed out">>)],
     info |-> [info EXCEPT !.status = "timeout", !.timestamp = <<cl.elapsed>>]]

\* one pass of the loop of execute_custom_template, or the code after it
ExecuteCustomTemplateIterate(cl, info, ans, tmo) ==
    IF cl.elapsed < tmo
    THEN LET r == SdkRefresh(cl.task, ans)
             c1 == [cl EXCEPT !.task = r.task, !.log = Logged(cl.log, ans.status),
                              !.polls = Counted(cl.polls)]
         IN IF r.raised # None
            THEN [call |-> ExecuteCustomTemplateExcept(c1, r.raised[1]), info |-> info]
            ELSE IF r.task.status = "completed" THEN ExecuteCustomTemplateCompleted(c1, info)
            ELSE IF r.task.status = "failed" THEN ExecuteCustomTemplateFailed(c1, info)
            ELSE [call |-> [c1 EXCEPT !.elapsed = cl.elapsed + SleepSeconds],
                  info |-> info]
    ELSE ExecuteCustomTemplateTimedOut(cl, info)

\* ------------------------------------------------------- mcp_server.py
\* the saturating reading of the wall clock, for the loops without a deadline
MaxClock == MaxTimeout + SleepSeconds
Later(elapsed) == IF elapsed + SleepSeconds < MaxClock THEN elapsed + SleepSeconds ELSE MaxClock

\* PROMPT_TEMPLATES of mcp_server.py
PROMPT_TEMPLATES ==
    [k \in {"pr_creation", "linear_issues", "code_generation",
            "data_analysis", "documentation", "testing_strategy"} |->
        <<k, CONTEXT>>]

\* the literal each <name>_endpoint handler of POST /api/<route> stores in its
\* entry and passes to execute_agent_task as endpoint=...
EndpointOf(route) ==
    CASE route = "pr-creation" -> "pr_creation"
      [] route = "linear-issues" -> "linear_issues"
      [] route = "code-generation" -> "code_generation"
      [] route = "data-analysis" -> "data_analysis"
      [] route = "documentation" -> "documentation"
      [] route = "testing-strategy" -> "testing_strategy"

\* an entry of the tasks store; status "absent": no such key
NoEntry == [task_id |-> None, status |-> "absent", result |-> None,
            created_at |-> None, completed_at |-> None, endpoint |-> ""]

\* the body of the <name>_endpoint handlers: tasks[task_id] = {...}
NewEntry(c, name) ==
    [task_id |-> <<c>>, status |-> "pending", result |-> None,
     created_at |-> <<0>>, completed_at |-> None, endpoint |-> name]

\* except Exception as e: the entry becomes FAILED with {"error": str(e)}
ExecuteAgentTaskExcept(cl, entry, e) ==
    [call |-> [cl EXCEPT !.pc = "done", !.raised = <<e>>,
                         !.outcome = ReturnedResult(None)],
     entry |-> [entry EXCEPT !.status = "failed",
                             !.result = <<"error">> \o Str(e),
                             !.completed_at = <<cl.elapsed>>]]

\* variant: the completed branch stores status and result, not completed_at
ExecuteAgentTaskCompleted_NoTimestamp(cl, entry) ==
    [call |-> [cl EXCEPT !.pc = "done", !.outcome = ReturnedResult(None)],
     entry |-> [entry EXCEPT !.status = "completed", !.result = cl.task.result]]

\* if task.status == "completed": ...; break
ExecuteAgentTaskCompleted(cl, entry) ==
    [call |-> [cl EXCEPT !.pc = "done", !.outcome = ReturnedResult(None)],
     entry |-> [entry EXCEPT !.status = "completed",
                             !.result = cl.task.result,
                             !.completed_at = <<cl.elapsed>>]]

\* variant: the failed branch without its break, the loop goes on to sleep
ExecuteAgentTaskFailed_NoBreak(cl, entry) ==
    [call |-> [cl EXCEPT !.pc = "sleep", !.elapsed = Later(cl.elapsed)],
     entry |-> [entry EXCEPT !.status = "failed",
                             !.result = <<"error", "Agent task failed">>,
                             !.completed_at = <<cl.elapsed>>]]

\* elif task.status == "failed": ...; break
ExecuteAgentTaskFailed(cl, entry) ==
    [call |-> [cl EXCEPT !.pc = "done", !.outcome = ReturnedResult(None)],
     entry |-> [entry EXCEPT !.status = "failed",
                             !.result = <<"error", "Agent task failed">>,
                             !.completed_at = <<cl.elapsed>>]]

\* variant: the cancellation is handled like an exception of the backend
ExecuteAgentTaskCancelled_MarksFailed(cl, entry) ==
    [call |-> [cl EXCEPT !.pc = "cancelled", !.outcome = Raised(<<"CancelledError">>)],
     entry |-> [entry EXCEPT !.status = "failed",
                             !.result = <<"error", "CancelledError">>,
                             !.completed_at = <<cl.elapsed>>]]

\* `await asyncio.sleep(2)` raises asyncio.CancelledError; it derives from
\* BaseException, `except Exception` does not catch it, and it leaves
\* execute_agent_task with the entry as it was.
ExecuteAgentTaskCancelled(cl, entry) ==
    [call |-> [cl EXCEPT !.pc = "cancelled", !.outcome = Raised(<<"CancelledError">>)],
     entry |-> entry]

\* one pass of `while True` in execute_agent_task, up to `await asyncio.sleep(2)`
ExecuteAgentTaskIterate(cl, entry, ans) ==
    LET r == SdkRefresh(cl.task, ans)
        c1 == [cl EXCEPT !.task = r.task, !.log = Logged(cl.log, ans.status),
                           !.polls = Counted(cl.polls)]
    IN IF r.raised # None THEN ExecuteAgentTaskExcept(c1, entry, r.raised[1])
       ELSE IF r.task.status = "completed" THEN ExecuteAgentTaskCompleted(c1, entry)
       ELSE IF r.task.status = "failed" THEN ExecuteAgentTaskFailed(c1, entry)
       ELSE [call |-> [c1 EXCEPT !.pc = "sleep", !.elapsed = Later(cl.elapsed)],
             entry |-> entry]

\* GET /api/tasks/{task_id}: the response, or the 404 error
get_task_status(store, task_id) ==
    IF store[task_id] = NoEntry
    THEN [status_code |-> "404", body |-> NoEntry]
    ELSE [status_code |-> "200", body |-> store[task_id]]

\* GET /api/tasks: the entries of the store
list_tasks(store) == {store[c] : c \in {d \in DOMAIN store : store[d] # NoEntry}}

\* ------------------------------------------------------------ client.py
\* requests.HTTPError of response.raise_for_status(), requests.ConnectionError
\* of requests.get, and the TimeoutError of wait_for_task_completion
HTTPError(status_code) ==
    [cls |-> "HTTPError", message |-> <<status_code, " Client Error">>,
     status_code |-> <<status_code>>]
ConnectionError ==
    [cls |-> "ConnectionError", message |-> <<"connection refused">>, status_code |-> None]
TimeoutError(task_id, tmo) ==
    [cls |-> "TimeoutError",
     message |-> <<"Task ", task_id, " did not complete within the specified timeout of ",
                   tmo, " seconds">>,
     status_code |-> None]

\* what happens to a request on the way: it is answered, or it fails
HttpAnswers == {"answered", "connection_error"}

\* A call of wait_for_task_completion: pc (idle, loop, done), its arguments,
\* time.time() - start_time, the number of status requests it has made, the
\* status the last one showed ("": none), whether it made a request when the
\* elapsed time had reached the timeout, the task info it returned and the
\* exception it raised.
IdleWait ==
    [pc |-> "idle", task_id |-> "", timeout |-> 0, polling_interval |-> 0,
     elapsed |-> 0, requests |-> 0, seen |-> "", late_request |-> FALSE,
     returned |-> None, raised |-> None]

\* MCPClient.get_task_status(task_id): the JSON body, or the exception of
\* requests.get / response.raise_for_status()
ClientGetTaskStatus(store, task_id, net) ==
    IF net = "connection_error"
    THEN [body |-> NoEntry, raised |-> <<ConnectionError>>]
    ELSE LET response == get_task_status(store, task_id)
         IN IF response.status_code # "200"
            THEN [body |-> NoEntry, raised |-> <<HTTPError(response.status_code)>>]
            ELSE [body |-> response.body, raised |-> None]

\* one pass of `while time.time() - start_time < timeout`, up to the end of
\* time.sleep(polling_interval); when the test fails, the raise after the loop
WaitIterate(w, store, net, latency) ==
    IF ~(w.elapsed < w.timeout)
    THEN [w EXCEPT !.pc = "done", !.raised = <<TimeoutError(w.task_id, w.timeout)>>]
    ELSE LET r == ClientGetTaskStatus(store, w.task_id, net)
             w1 == [w EXCEPT !.requests = Counted(w.requests)]
         IN IF r.raised # None
            THEN [w1 EXCEPT !.pc = "done", !.raised = r.raised]
            ELSE IF r.body.status \in {"completed", "failed"}
            THEN [w1 EXCEPT !.pc = "done", !.seen = r.body.status,
                            !.returned = <<r.body>>]
            ELSE [w1 EXCEPT !.seen = r.body.status,
                            !.elapsed = w.elapsed + latency + w.polling_interval]

\* ------------------------------------------------ codegen_mcp_server.py
\* the token query text is substituted for by str.replace
AGENTINPUTQUERY == "agentinputquery"

\* TEMPLATES[...]["template"] of codegen_mcp_server.py
TEMPLATES ==
    [k \in {"create_pr", "create_linear_issues", "endpoint3", "endpoint4",
            "endpoint5", "endpoint6"} |->
        <<"{", k, "+", AGENTINPUTQUERY, "}">>]

\* template.replace("agentinputquery", query)
RECURSIVE Replace(_, _, _)
Replace(template, old, new) ==
    IF template = <<>> THEN <<>>
    ELSE (IF Head(template) = old THEN new ELSE <<Head(template)>>)
         \o Replace(Tail(template), old, new)

\* variant: tool_fn reads the loop variable template_id when it is called,
\* after the loop has ended
create_tool_LateBinding(tid) ==
    [name |-> <<"run_", tid>>, template_id |-> "endpoint6"]

\* create_tool(tid): the tool run_<tid>, whose tool_fn calls
\* run_codegen_task(tid, ...) with the tid of its own closure
create_tool(tid) ==
    [name |-> <<"run_", tid>>, template_id |-> tid]

\* for template_id, template_info in TEMPLATES.items(): create_tool(template_id)
Tools == {create_tool(template_id) : template_id \in DOMAIN TEMPLATES}

\* the generic tool run_codegen(template_id, query, ...)
run_codegen(template_id) ==
    [name |-> <<"run_codegen">>, template_id |-> template_id]

\* if task.status == "completed": break ; ... return {"status": ..., "result": ...}
RunCodegenTaskCompleted(cl) ==
    [cl EXCEPT !.pc = "done",
               !.outcome = ReturnedDict(cl.task.status, cl.task.result, None)]

\* elif task.status == "failed": raise RuntimeError("Task failed")
RunCodegenTaskFailed(cl) ==
    [cl EXCEPT !.pc = "done", !.outcome = Raised(<<"Task failed">>)]

\* one pass of `while True` in run_codegen_task, up to `await asyncio.sleep(2)`;
\* nothing catches what task.refresh() raises
RunCodegenTaskIterate(cl, ans) ==
    LET r == SdkRefresh(cl.task, ans)
        c1 == [cl EXCEPT !.task = r.task, !.log = Logged(cl.log, ans.status),
                         !.polls = Counted(cl.polls)]
    IN IF r.raised # None
       THEN [c1 EXCEPT !.pc = "done", !.raised = r.raised,
                       !.outcome = Raised(Str(r.raised[1]))]
       ELSE IF r.task.status = "completed" THEN RunCodegenTaskCompleted(c1)
       ELSE IF r.task.status = "failed" THEN RunCodegenTaskFailed(c1)
       ELSE [c1 EXCEPT !.pc = "sleep"]

\* ------------------------------------------------ agent.py: Agent.run
\* What POST /agents/run can come back with.
RunResponses ==
    [kind : {"request_error"}, code : {None}, text : ExcTexts]
    \cup [kind : {"non200"}, code : {<<"500">>}, text : {<<"down">>}]
    \cup [kind : {"bad_json"}, code : {<<"200">>}, text : {<<"not json">>}]
    \cup [kind : {"no_task_id"}, code : {<<"200">>}, text : {None}]
    \cup [kind : {"ok"}, code : {<<"200">>}, text : {None}]

\* Agent.run / Agent.run_async of a live agent: [task, raised].  A
\* CodegenApiError raised inside the try block is caught by the trailing
\* `except Exception` and raised again without its status code.
LiveRun(c, resp) ==
    IF resp.kind = "request_error"
    THEN [http |-> TRUE, task |-> NoTask,
          raised |-> <<CodegenApiError(<<"Error connecting to Codegen API: ">> \o resp.text, None)>>]
    ELSE IF resp.kind = "non200"
    THEN [http |-> TRUE, task |-> NoTask,
          raised |-> <<CodegenApiError(<<"Unexpected error running agent: ",
                                         "Error creating task: ">>
                                       \o resp.code \o <<" - ">> \o resp.text, None)>>]
    ELSE IF resp.kind = "bad_json"
    THEN [http |-> TRUE, task |-> NoTask,
          raised |-> <<CodegenApiError(<<"Unexpected error running agent: ">> \o resp.text, None)>>]
    ELSE IF resp.kind = "no_task_id"
    THEN [http |-> TRUE, task |-> NoTask,
          raised |-> <<CodegenApiError(<<"Unexpected error running agent: ",
                                         "No task_id in response">>, None)>>]
    ELSE [http |-> TRUE, task |-> CodegenTask(<<"task-", c>>, "live"), raised |-> None]

\* Agent.run_async of a live agent
LiveRunAsync(c, resp) ==
    IF resp.kind = "request_error"
    THEN [http |-> TRUE, task |-> NoTask,
          raised |-> <<CodegenApiError(<<"Error connecting to Codegen API: ">> \o resp.text, None)>>]
    ELSE IF resp.kind = "non200"
    THEN [http |-> TRUE, task |-> NoTask,
          raised |-> <<CodegenApiError(<<"Unexpected error running agent: ",
                                         "Error creating task: ">>
                                       \o resp.code \o <<" - ">> \o resp.text, None)>>]
    ELSE IF resp.kind = "bad_json"
    THEN [http |-> TRUE, task |-> NoTask,
          raised |-> <<CodegenApiError(<<"Unexpected error running agent: ">> \o resp.text, None)>>]
    ELSE IF resp.kind = "no_task_id"
    THEN [http |-> TRUE, task |-> NoTask,
          raised |-> <<CodegenApiError(<<"Unexpected error running agent: ",
                                         "No task_id in response">>, None)>>]
    ELSE [http |-> TRUE, task |-> CodegenTask(<<"task-", c>>, "live"), raised |-> None]

\* Agent.run
AgentRun(c, mock, resp) ==
    IF mock THEN [http |-> FALSE, task |-> CodegenTask(<<"mock_task_", c>>, "mock"), raised |-> None]
    ELSE LiveRun(c, resp)

\* Agent.run_async
AgentRunAsync(c, mock, resp) ==
    IF mock THEN [http |-> FALSE, task |-> CodegenTask(<<"mock_task_", c>>, "mock"), raised |-> None]
    ELSE LiveRunAsync(c, resp)

\* ------------------------------------------------ agent.py: CodegenAgent.run
\* except CodegenApiError / except Exception: return {"status": "error", "error": str(e)}
CodegenAgentExcept(cl, e) ==
    [cl EXCEPT !.pc = "done", !.raised = <<e>>,
               !.outcome = ReturnedDict("error", None, Str(e))]

\* the code after the loop: the dict returned for a terminal task
CodegenAgentReturn(cl) ==
    IF cl.task.status = "completed"
    THEN [cl EXCEPT !.pc = "done",
                    !.outcome = ReturnedDict("completed", cl.task.result, None)]
    ELSE [cl EXCEPT !.pc = "done",
                    !.outcome = ReturnedDict(cl.task.status, None,
                        Or(cl.task.error, <<"Task did not complete successfully">>))]

\* `while task.status not in [COMPLETED, FAILED, ERROR]`: the test of the loop
CodegenAgentWhile(cl) ==
    IF cl.task.status \in {"completed", "failed", "error"}
    THEN CodegenAgentReturn(cl)
    ELSE [cl EXCEPT !.pc = "sleep"]

\* resumed after `await asyncio.sleep(1)`: await task.refresh(), then the test
CodegenAgentIterate(cl, resp) ==
    LET r == refresh(cl.task, resp)
        c1 == [cl EXCEPT !.task = r.task, !.polls = Counted(cl.polls),
                 !.log = Logged(cl.log, IF r.raised # None THEN "raise" ELSE r.task.status)]
    IN IF r.raised # None THEN CodegenAgentExcept(c1, r.raised[1])
       ELSE CodegenAgentWhile(c1)

\* ------------------------------ examples/codegen_agent_server.py
\* PROMPT_TEMPLATES of the example server; the substitution point is {agent_query}
AGENT_QUERY == "{agent_query}"
EXAMPLE_TEMPLATES ==
    [k \in {"create_pr", "create_linear_issues", "analyze_codebase", "fix_bug",
            "review_pr", "generate_documentation"} |->
        <<k, AGENT_QUERY>>]

\* the prompt_template each @mcp.tool() function passes to run_codegen_agent
ExampleToolTemplate(tool) ==
    CASE tool = "create_pr" -> "create_pr"
      [] tool = "create_linear_issues" -> "create_linear_issues"
      [] tool = "analyze_codebase" -> "analyze_codebase"
      [] tool = "fix_bug" -> "fix_bug"
      [] tool = "review_pr" -> "review_pr"
      [] tool = "generate_documentation" -> "generate_documentation"

\* the calls of a run: the six tools, and run_codegen_agent called directly
\* with a prompt_template that does not exist
ExampleInputs ==
    {[tool |-> <<t>>, prompt_template |-> ExampleToolTemplate(t)] :
        t \in DOMAIN EXAMPLE_TEMPLATES}
    \cup {[tool |-> None, prompt_template |-> "nonexistent"]}

\* agent.run of the example server: raises, or returns a task in any status
ExampleSubmitAnswers ==
    [kind : {"raise"}, text : ExcTexts, status : {"raise"}, result : {None}, error : {None}]
    \cup {a \in SdkPollAnswers : a.kind = "ok"}

\* except Exception as e: return {"status": "error", "error": str(e)}
RunCodegenAgentExcept(cl, e) ==
    [cl EXCEPT !.pc = "done", !.raised = <<e>>,
               !.outcome = ReturnedDict("error", None, Str(e))]

\* the code after the loop of run_codegen_agent
RunCodegenAgentReturn(cl) ==
    IF cl.task.status = "completed"
    THEN [cl EXCEPT !.pc = "done",
                    !.outcome = ReturnedDict("completed", cl.task.result, None)]
    ELSE [cl EXCEPT !.pc = "done",
                    !.outcome = ReturnedDict(cl.task.status, None,
                        Or(cl.task.error, <<"Unknown error">>))]

\* `while task.status not in ["completed", "failed", "error"]`: the test, and
\* one pass of the body up to `await asyncio.sleep(1)`
RunCodegenAgentIterate(cl, ans) ==
    IF cl.task.status \in {"completed", "failed", "error"}
    THEN RunCodegenAgentReturn(cl)
    ELSE LET r == SdkRefresh(cl.task, ans)
             c1 == [cl EXCEPT !.task = r.task, !.log = Logged(cl.log, ans.status),
                              !.polls = Counted(cl.polls)]
         IN IF r.raised # None THEN RunCodegenAgentExcept(c1, r.raised[1])
            ELSE [c1 EXCEPT !.pc = "sleep"]

\* ------------------------------- contrib/codegen_agent/server.py
\* `await x` for an object x that is no awaitable: CodegenTask defines
\* __init__, refresh, refresh_sync and __str__, and no __await__
AwaitTask(t) ==
    [cls |-> "TypeError",
     message |-> <<"object CodegenTask can't be used in 'await' expression">>,
     status_code |-> None]

\* CodegenAgentServer.run_codegen_agent(prompt, ctx) after agent.run(prompt)
\* has returned r or raised: `task = await agent.run(prompt)` awaits the
\* CodegenTask that the synchronous Agent.run returned, which raises before
\* `task` is bound; the loop and the returns below it are not reached.
ServerRunCodegenAgent(cl, r) ==
    IF r.raised # None
    THEN [cl EXCEPT !.pc = "done", !.submit_failed = TRUE, !.raised = r.raised,
                    !.outcome = Raised(Str(r.raised[1]))]
    ELSE [cl EXCEPT !.pc = "done", !.raised = <<AwaitTask(r.task)>>,
                    !.outcome = Raised(Str(AwaitTask(r.task)))]

\* ---------------------------------------------------------------- state
VARIABLES
    cg_task,      \* a CodegenTask object under direct refresh calls
    cg_raised,    \* what the last run / refresh of cg_task raised (None: it returned)
    cg_http,      \* whether an HTTP request has been made for cg_task
    cg_resp,      \* what the backend answered to the last live Agent.run (None: nothing yet)
    impl,         \* the program the calls run in
    mock_mode,    \* CodegenAgent.mock_mode
    sdk_has_id,   \* whether the SDK's task objects have an attribute id
    timeout,      \* CodegenMCPCallable.timeout, in seconds
    templates,    \* CodegenMCPCallable.templates
    calls,        \* the lifecycle calls: position, task object, outcome
    task_info,    \* the task_info dict each _execute_template call created
    task_history, \* CodegenMCPCallable.task_history: references to task_info dicts
    tasks,        \* the tasks store of mcp_server.py, by task identifier
    tmpl_op,      \* the last template operation of CodegenMCPCallable and what it left
    written,      \* per key, the template of the last write that succeeded (<<v>>, or None)
    wait          \* a call of MCPClient.wait_for_task_completion

vars == <<cg_task, cg_raised, cg_http, cg_resp, impl, mock_mode, sdk_has_id, timeout, templates, calls, task_info, task_history, tasks, tmpl_op, written, wait>>

lifecycle_vars == <<impl, mock_mode, sdk_has_id, timeout, templates, calls, task_info, task_history, tasks>>
task_vars == <<cg_task, cg_raised, cg_http, cg_resp>>
config_vars == <<impl, mock_mode, sdk_has_id, timeout, templates>>
caller_vars == <<tmpl_op, written, wait>>

\* The keys and templates of the template operations: a default key and a
\* custom one, a template with the placeholder and one without it.
OpKeys == {"pr_creation", "review"}
OpTemplates == {<<"Review: ", CONTEXT>>, <<"no placeholder here">>}

\* no template operation yet
NoOp == [op |-> "", key |-> "", value |-> None, returned |-> None, raised |-> None]

\* the inputs of a call
TemplateKeys == {"pr_creation", "nonexistent"}
Contexts == {<<"q">>}
CustomTemplates == {<<"custom:", CONTEXT>>}

\* ------------------------------ an Agent and its CodegenTask, used directly
\* Either a task constructed without an agent, CodegenTask("t1"), or no task
\* yet and an Agent(org_id, token, mock_mode=...) to run one.
TaskInit ==
    /\ cg_task \in {NoTask, CodegenTask(<<"t1">>, "none")}
    /\ cg_raised = None
    /\ cg_http = FALSE
    /\ cg_resp = None
    /\ impl = "none"
    /\ mock_mode \in BOOLEAN
    /\ sdk_has_id = FALSE
    /\ timeout = 1
    /\ templates = DefaultTemplates
    /\ calls = [c \in Calls |-> IdleCall]
    /\ task_info = [c \in Calls |-> NoInfo]
    /\ task_history = <<>>
    /\ tasks = [c \in Calls |-> NoEntry]
    /\ tmpl_op = NoOp
    /\ written = [k \in OpKeys |-> None]
    /\ wait = IdleWait

\* what a run or a refresh leaves behind
TaskAfter(r, resp) ==
    /\ cg_task' = r.task
    /\ cg_raised' = r.raised
    /\ cg_http' = (cg_http \/ r.http)
    /\ cg_resp' = resp
    /\ UNCHANGED <<caller_vars, lifecycle_vars>>

\* task = agent.run(prompt)
TaskRun ==
    /\ cg_task = NoTask
    /\ \E resp \in RunResponses :
        TaskAfter(AgentRun("c1", mock_mode, resp), IF mock_mode THEN None ELSE <<resp>>)

\* task = await agent.run_async(prompt)
TaskRunAsync ==
    /\ cg_task = NoTask
    /\ \E resp \in RunResponses :
        TaskAfter(AgentRunAsync("c1", mock_mode, resp), IF mock_mode THEN None ELSE <<resp>>)

\* await task.refresh()
TaskRefresh ==
    /\ cg_task # NoTask
    /\ \E resp \in PollResponses : TaskAfter(refresh(cg_task, resp), cg_resp)

\* task.refresh_sync()
TaskRefreshSync ==
    /\ cg_task # NoTask
    /\ \E resp \in PollResponses : TaskAfter(refresh_sync(cg_task, resp), cg_resp)

\* await agent.refresh_task(task), by the agent that ran the task
TaskRefreshTask ==
    /\ cg_task.agent \in {"mock", "live"}
    /\ \E resp \in PollResponses : TaskAfter(refresh_task(cg_task, resp), cg_resp)

\* agent.refresh_task_sync(task), by the agent that ran the task
TaskRefreshTaskSync ==
    /\ cg_task.agent \in {"mock", "live"}
    /\ \E resp \in PollResponses : TaskAfter(refresh_task_sync(cg_task, resp), cg_resp)

TaskNext ==
    \/ TaskRun
    \/ TaskRunAsync
    \/ TaskRefresh
    \/ TaskRefreshSync
    \/ TaskRefreshTask
    \/ TaskRefreshTaskSync

TaskSpec == TaskInit /\ [][TaskNext]_vars

\* ------------------------------------------------ the lifecycle programs
Impls == {"callable", "mcp_server", "codegen_mcp_server", "CodegenAgent",
          "example_server", "CodegenAgentServer"}

\* The calls of a run: the programs with a registry serve concurrent calls,
\* and a mock-mode CodegenAgent is run twice; the calls of the others share
\* no state, and one call stands for each.
CallsOf(i) ==
    IF i \in {"callable", "mcp_server"} \/ (i = "CodegenAgent" /\ mock_mode)
    THEN Calls
    ELSE {"c1"}

\* the endpoints the requests of a run go to
EndpointInputs == {"pr-creation", "testing-strategy"}

Init ==
    /\ cg_task = CodegenTask(<<"t1">>, "none")
    /\ cg_raised = None
    /\ cg_http = FALSE
    /\ cg_resp = None
    /\ impl \in Impls
    /\ mock_mode \in (IF impl \in {"CodegenAgent", "CodegenAgentServer"}
                      THEN BOOLEAN ELSE {FALSE})
    /\ sdk_has_id \in (IF impl = "callable" THEN BOOLEAN ELSE {TRUE})
    /\ timeout \in (IF impl = "callable" THEN 1..MaxTimeout ELSE {MaxTimeout})
    /\ templates = DefaultTemplates
    /\ calls = [c \in Calls |-> IdleCall]
    /\ task_info = [c \in Calls |-> NoInfo]
    /\ task_history = <<>>
    /\ tasks = [c \in Calls |-> NoEntry]
    /\ tmpl_op = NoOp
    /\ written = [k \in OpKeys |-> None]
    /\ wait = IdleWait

\* CodegenMCPCallable._execute_template(template_key, context), from its
\* entry to the first pass of the polling loop.
execute_template(c) ==
    /\ impl = "callable"
    /\ calls[c].pc = "idle"
    /\ \E key \in TemplateKeys, context \in Contexts, ans \in SdkSubmitAnswers :
        IF key \notin DOMAIN templates
        THEN /\ calls' = [calls EXCEPT ![c] = ExecuteTemplateUnknown(@, key)]
             /\ UNCHANGED <<task_info, task_history>>
        ELSE LET prompt == WithParams(Format(templates[key], context), None)
                 c0 == Submit(calls[c], prompt)
             IN IF ans.kind = "raise"
                THEN /\ calls' = [calls EXCEPT ![c] =
                            ExecuteTemplateExcept([c0 EXCEPT !.submit_failed = TRUE],
                                                  PyException(ans.text))]
                     /\ UNCHANGED <<task_info, task_history>>
                ELSE LET t == SdkTask(c, sdk_has_id)
                     IN /\ calls' = [calls EXCEPT ![c] =
                               [c0 EXCEPT !.pc = "loop", !.task = t,
                                          !.fn = "_execute_template"]]
                        /\ task_info' = [task_info EXCEPT ![c] =
                               [task_id |-> GetattrId(t), template_key |-> key,
                                context_length |-> Len(context),
                                timestamp |-> None, status |-> "pending"]]
                        /\ task_history' = Append(task_history, c)
    /\ UNCHANGED <<task_vars, caller_vars, config_vars, tasks>>

\* the polling loop of _execute_template, one pass at a time
execute_template_loop(c) ==
    /\ impl = "callable"
    /\ calls[c].pc = "loop"
    /\ calls[c].fn = "_execute_template"
    /\ \E ans \in SdkPollAnswers :
        LET r == ExecuteTemplateIterate(calls[c], task_info[c], ans, timeout)
        IN /\ calls' = [calls EXCEPT ![c] = r.call]
           /\ task_info' = [task_info EXCEPT ![c] = r.info]
    /\ UNCHANGED <<task_vars, caller_vars, config_vars, task_history, tasks>>

\* CodegenMCPCallable.execute_custom_template(template, context), from its
\* entry to the first pass of the polling loop.
execute_custom_template(c) ==
    /\ impl = "callable"
    /\ calls[c].pc = "idle"
    /\ \E template \in CustomTemplates, context \in Contexts, ans \in SdkSubmitAnswers :
        LET prompt == WithParams(Format(template, context), None)
            c0 == Submit(calls[c], prompt)
        IN IF ans.kind = "raise"
           THEN /\ calls' = [calls EXCEPT ![c] =
                       ExecuteCustomTemplateExcept([c0 EXCEPT !.submit_failed = TRUE],
                                                   PyException(ans.text))]
                /\ UNCHANGED <<task_info, task_history>>
           ELSE LET t == SdkTask(c, sdk_has_id)
                IN /\ calls' = [calls EXCEPT ![c] =
                          [c0 EXCEPT !.pc = "loop", !.task = t,
                                     !.fn = "execute_custom_template"]]
                   /\ task_info' = [task_info EXCEPT ![c] =
                          [task_id |-> GetattrId(t), template_key |-> "custom",
                           context_length |-> Len(context),
                           timestamp |-> None, status |-> "pending"]]
                   /\ task_history' = Append(task_history, c)
    /\ UNCHANGED <<task_vars, caller_vars, config_vars, tasks>>

\* the polling loop of execute_custom_template, one pass at a time
execute_custom_template_loop(c) ==
    /\ impl = "callable"
    /\ calls[c].pc = "loop"
    /\ calls[c].fn = "execute_custom_template"
    /\ \E ans \in SdkPollAnswers :
        LET r == ExecuteCustomTemplateIterate(calls[c], task_info[c], ans, timeout)
        IN /\ calls' = [calls EXCEPT ![c] = r.call]
           /\ task_info' = [task_info EXCEPT ![c] = r.info]
    /\ UNCHANGED <<task_vars, caller_vars, config_vars, task_history, tasks>>

\* POST /api/<name>: the entry is stored and execute_agent_task is scheduled
\* as a background task; the response shows the pending entry.
endpoint(c, name) ==
    /\ impl = "mcp_server"
    /\ calls[c].pc = "idle"
    /\ calls' = [calls EXCEPT ![c] = [@ EXCEPT !.pc = "scheduled", !.tool = <<name>>,
                                                !.key = EndpointOf(name)]]
    /\ tasks' = [tasks EXCEPT ![c] = NewEntry(c, EndpointOf(name))]
    /\ UNCHANGED <<task_vars, caller_vars, config_vars,
                   task_info, task_history>>

\* execute_agent_task from its first line to its first `await`
execute_agent_task(c) ==
    /\ impl = "mcp_server"
    /\ calls[c].pc = "scheduled"
    /\ \E context \in Contexts, sub \in SdkSubmitAnswers, ans \in SdkPollAnswers :
        LET running == [tasks[c] EXCEPT !.status = "running"]
            name == calls[c].key
            r == IF name \notin DOMAIN PROMPT_TEMPLATES
                 THEN ExecuteAgentTaskExcept(calls[c], running,
                          PyException(<<"Unknown endpoint: ", name>>))
                 ELSE LET prompt == Format(PROMPT_TEMPLATES[name], context)
                          c0 == Submit(Construct(calls[c]), prompt)
                      IN IF sub.kind = "raise"
                         THEN ExecuteAgentTaskExcept([c0 EXCEPT !.submit_failed = TRUE],
                                  running, PyException(sub.text))
                         ELSE ExecuteAgentTaskIterate(
                                  [c0 EXCEPT !.task = SdkTask(c, sdk_has_id)], running, ans)
        IN /\ calls' = [calls EXCEPT ![c] = r.call]
           /\ tasks' = [tasks EXCEPT ![c] = r.entry]
    /\ UNCHANGED <<task_vars, caller_vars, config_vars,
                   task_info, task_history>>

\* execute_agent_task resumed after `await asyncio.sleep(2)`
execute_agent_task_wake(c) ==
    /\ impl = "mcp_server"
    /\ calls[c].pc = "sleep"
    /\ \E ans \in SdkPollAnswers :
        LET r == ExecuteAgentTaskIterate(calls[c], tasks[c], ans)
        IN /\ calls' = [calls EXCEPT ![c] = r.call]
           /\ tasks' = [tasks EXCEPT ![c] = r.entry]
    /\ UNCHANGED <<task_vars, caller_vars, config_vars,
                   task_info, task_history>>

\* the background task of execute_agent_task is cancelled during its sleep
execute_agent_task_cancel(c) ==
    /\ impl = "mcp_server"
    /\ calls[c].pc = "sleep"
    /\ LET r == ExecuteAgentTaskCancelled(calls[c], tasks[c])
       IN /\ calls' = [calls EXCEPT ![c] = r.call]
          /\ tasks' = [tasks EXCEPT ![c] = r.entry]
    /\ UNCHANGED <<task_vars, caller_vars, config_vars, task_info, task_history>>

\* the tool calls of a run: the generated tools, and the generic tool with a
\* template id that exists and one that does not
ToolInputs ==
    Tools \cup {run_codegen(t) : t \in {"create_pr", "nonexistent"}}

\* run_codegen_task(template_id, query, org_id, token) up to its first sleep
run_codegen_task(c) ==
    /\ impl = "codegen_mcp_server"
    /\ calls[c].pc = "idle"
    /\ \E tool \in ToolInputs, query \in Contexts,
          credentials \in BOOLEAN, sub \in SdkSubmitAnswers, ans \in SdkPollAnswers :
        calls' = [calls EXCEPT ![c] =
            LET template_id == tool.template_id
                cl == [@ EXCEPT !.tool = tool.name, !.key = template_id]
            IN
            IF template_id \notin DOMAIN TEMPLATES
            THEN [cl EXCEPT !.pc = "done", !.rejected = "template",
                    !.outcome = Raised(<<"Template '", template_id, "' not found">>)]
            ELSE IF ~credentials
            THEN [cl EXCEPT !.pc = "done", !.rejected = "credentials",
                    !.outcome = Raised(<<"Missing Codegen credentials.">>)]
            ELSE LET prompt == Replace(TEMPLATES[template_id], AGENTINPUTQUERY, query)
                     c0 == Submit(Construct(cl), prompt)
                 IN IF sub.kind = "raise"
                    THEN [c0 EXCEPT !.pc = "done", !.submit_failed = TRUE,
                                    !.raised = <<PyException(sub.text)>>,
                                    !.outcome = Raised(Str(PyException(sub.text)))]
                    ELSE RunCodegenTaskIterate(
                             [c0 EXCEPT !.task = SdkTask(c, sdk_has_id)], ans)]
    /\ UNCHANGED <<task_vars, caller_vars, config_vars, task_info, task_history, tasks>>

\* run_codegen_task resumed after `await asyncio.sleep(2)`
run_codegen_task_wake(c) ==
    /\ impl = "codegen_mcp_server"
    /\ calls[c].pc = "sleep"
    /\ \E ans \in SdkPollAnswers :
        calls' = [calls EXCEPT ![c] = RunCodegenTaskIterate(@, ans)]
    /\ UNCHANGED <<task_vars, caller_vars, config_vars, task_info, task_history, tasks>>

\* CodegenAgent.run(prompt) up to its first sleep
CodegenAgent_run(c) ==
    /\ impl = "CodegenAgent"
    /\ calls[c].pc = "idle"
    /\ \E prompt \in Contexts, resp \in RunResponses :
        LET r == AgentRun(c, mock_mode, resp)
            c0 == Submit(Construct(calls[c]), prompt)
        IN calls' = [calls EXCEPT ![c] =
               IF r.raised # None
               THEN CodegenAgentExcept([c0 EXCEPT !.submit_failed = TRUE], r.raised[1])
               ELSE CodegenAgentWhile([c0 EXCEPT !.task = r.task])]
    /\ UNCHANGED <<task_vars, caller_vars, config_vars, task_info, task_history, tasks>>

\* CodegenAgent.run resumed after `await asyncio.sleep(1)`
CodegenAgent_run_wake(c) ==
    /\ impl = "CodegenAgent"
    /\ calls[c].pc = "sleep"
    /\ \E resp \in PollResponses :
        calls' = [calls EXCEPT ![c] = CodegenAgentIterate(@, resp)]
    /\ UNCHANGED <<task_vars, caller_vars, config_vars, task_info, task_history, tasks>>

\* run_codegen_agent(prompt_template, agent_query, ctx) of the example server,
\* up to its first sleep
run_codegen_agent(c) ==
    /\ impl = "example_server"
    /\ calls[c].pc = "idle"
    /\ \E input \in ExampleInputs, agent_query \in Contexts,
          sub \in ExampleSubmitAnswers, ans \in SdkPollAnswers :
        calls' = [calls EXCEPT ![c] =
            LET prompt_template == input.prompt_template
                cl == [@ EXCEPT !.tool = input.tool, !.key = prompt_template]
            IN
            IF prompt_template \notin DOMAIN EXAMPLE_TEMPLATES
            THEN [cl EXCEPT !.pc = "done", !.rejected = "template",
                    !.outcome = Raised(<<"KeyError: ", prompt_template>>)]
            ELSE LET prompt == Replace(EXAMPLE_TEMPLATES[prompt_template],
                                       AGENT_QUERY, agent_query)
                     c0 == Submit(Construct(cl), prompt)
                 IN IF sub.kind = "raise"
                    THEN RunCodegenAgentExcept([c0 EXCEPT !.submit_failed = TRUE],
                                               PyException(sub.text))
                    ELSE RunCodegenAgentIterate(
                             [c0 EXCEPT !.task =
                                 [SdkTask(c, sdk_has_id) EXCEPT !.status = sub.status,
                                     !.result = sub.result, !.error = sub.error]], ans)]
    /\ UNCHANGED <<task_vars, caller_vars, config_vars, task_info, task_history, tasks>>

\* run_codegen_agent resumed after `await asyncio.sleep(1)`
run_codegen_agent_wake(c) ==
    /\ impl = "example_server"
    /\ calls[c].pc = "sleep"
    /\ \E ans \in SdkPollAnswers :
        calls' = [calls EXCEPT ![c] = RunCodegenAgentIterate(@, ans)]
    /\ UNCHANGED <<task_vars, caller_vars, config_vars, task_info, task_history, tasks>>

\* CodegenAgentServer.run_codegen_agent(prompt, ctx), to the point where it
\* is left
CodegenAgentServer_run_codegen_agent(c) ==
    /\ impl = "CodegenAgentServer"
    /\ calls[c].pc = "idle"
    /\ \E prompt \in Contexts, resp \in RunResponses :
        LET r == AgentRun(c, mock_mode, resp)
            c0 == Submit(calls[c], prompt)
        IN calls' = [calls EXCEPT ![c] = ServerRunCodegenAgent(c0, r)]
    /\ UNCHANGED <<task_vars, caller_vars, config_vars, task_info, task_history, tasks>>

Next ==
    \/ \E c \in CallsOf(impl) : execute_template(c)
    \/ \E c \in CallsOf(impl) : execute_template_loop(c)
    \/ \E c \in CallsOf(impl) : execute_custom_template(c)
    \/ \E c \in CallsOf(impl) : execute_custom_template_loop(c)
    \/ \E c \in CallsOf(impl), name \in EndpointInputs : endpoint(c, name)
    \/ \E c \in CallsOf(impl) : execute_agent_task(c)
    \/ \E c \in CallsOf(impl) : execute_agent_task_wake(c)
    \/ \E c \in CallsOf(impl) : execute_agent_task_cancel(c)
    \/ \E c \in CallsOf(impl) : run_codegen_task(c)
    \/ \E c \in CallsOf(impl) : run_codegen_task_wake(c)
    \/ \E c \in CallsOf(impl) : CodegenAgent_run(c)
    \/ \E c \in CallsOf(impl) : CodegenAgent_run_wake(c)
    \/ \E c \in CallsOf(impl) : run_codegen_agent(c)
    \/ \E c \in CallsOf(impl) : run_codegen_agent_wake(c)
    \/ \E c \in CallsOf(impl) : CodegenAgentServer_run_codegen_agent(c)

Spec == Init /\ [][Next]_vars

\* One step of call c, whatever program it runs in.
CallStep(c) ==
    \/ execute_template(c) \/ execute_template_loop(c)
    \/ execute_custom_template(c) \/ execute_custom_template_loop(c)
    \/ execute_agent_task(c) \/ execute_agent_task_wake(c)
    \/ run_codegen_task(c) \/ run_codegen_task_wake(c)
    \/ CodegenAgent_run(c) \/ CodegenAgent_run_wake(c)
    \/ run_codegen_agent(c) \/ run_codegen_agent_wake(c)
    \/ CodegenAgentServer_run_codegen_agent(c)

\* A thread that is runnable runs, and the event loop resumes a coroutine whose
\* sleep has ended: every call that can take a step eventually takes one.
FairSpec == Spec /\ \A c \in Calls : WF_vars(CallStep(c))

\* ------------------------------ the templates of one CodegenMCPCallable
\* what a template operation leaves behind
TemplateAfter(op, key, value, r) ==
    /\ templates' = r.templates
    /\ tmpl_op' = [op |-> op, key |-> key, value |-> value,
                   returned |-> r.returned, raised |-> r.raised]
    /\ written' = IF op \in {"set", "add"} /\ r.raised = None
                  THEN [written EXCEPT ![key] = <<value>>]
                  ELSE written
    /\ UNCHANGED <<task_vars, impl, mock_mode, sdk_has_id, timeout,
                   calls, task_info, task_history, tasks, wait>>

get_template ==
    \E k \in OpKeys : TemplateAfter("get", k, None, GetTemplate(templates, k))

set_template ==
    \E k \in OpKeys, v \in OpTemplates :
        TemplateAfter("set", k, v, SetTemplate(templates, k, v))

add_template ==
    \E k \in OpKeys, v \in OpTemplates :
        TemplateAfter("add", k, v, AddTemplate(templates, k, v))

delete_template ==
    \E k \in OpKeys : TemplateAfter("delete", k, None, DeleteTemplate(templates, k))

\* one CodegenMCPCallable(timeout=1) whose templates are read, written and
\* executed by one caller
TemplateInit ==
    /\ Init
    /\ impl = "callable"
    /\ sdk_has_id
    /\ timeout = 1

TemplateNext ==
    \/ get_template
    \/ set_template
    \/ add_template
    \/ delete_template
    \/ execute_template("c1")
    \/ execute_template_loop("c1")

TemplateSpec == TemplateInit /\ [][TemplateNext]_vars

\* --------------------------- the task history of one CodegenMCPCallable
\* get_task_history(): the list self.task_history of task_info dicts
get_task_history == [i \in DOMAIN task_history |-> task_info[task_history[i]]]

\* variant: clear_task_history removes the oldest entry only
ClearTaskHistory_DropsOldest(history) ==
    IF history = <<>> THEN <<>> ELSE Tail(history)

\* self.task_history = []
ClearTaskHistory(history) == <<>>

\* clear_task_history(), called by a thread other than the ones that execute
clear_task_history ==
    /\ impl = "callable"
    /\ task_history' = ClearTaskHistory(task_history)
    /\ UNCHANGED <<task_vars, caller_vars, config_vars, calls, task_info, tasks>>

\* one CodegenMCPCallable(timeout=1) on which two threads execute templates
\* while a third clears the history
HistoryInit ==
    /\ Init
    /\ impl = "callable"
    /\ sdk_has_id
    /\ timeout = 1

HistoryNext ==
    \/ \E c \in Calls : execute_template(c)
    \/ \E c \in Calls : execute_template_loop(c)
    \/ clear_task_history

HistorySpec == HistoryInit /\ [][HistoryNext]_vars

\* ----------------------------- an MCPClient waiting on the mcp_server
\* the arguments of wait_for_task_completion and the seconds a request takes
WaitTimeouts == 0..MaxWait
PollingIntervals == {1, 2}
Latencies == {0, 1}

\* wait_for_task_completion(task_id, timeout, polling_interval): start_time
wait_for_task_completion ==
    /\ wait.pc = "idle"
    /\ \E task_id \in Calls, tmo \in WaitTimeouts, polling_interval \in PollingIntervals :
          wait' = [IdleWait EXCEPT !.pc = "loop", !.task_id = task_id,
                                   !.timeout = tmo,
                                   !.polling_interval = polling_interval]
    /\ UNCHANGED <<task_vars, config_vars, tmpl_op, written,
                   calls, task_info, task_history, tasks>>

\* one pass of the loop of wait_for_task_completion
wait_for_task_completion_loop ==
    /\ wait.pc = "loop"
    /\ \E net \in HttpAnswers, latency \in Latencies :
          wait' = WaitIterate(wait, tasks, net, latency)
    /\ UNCHANGED <<task_vars, config_vars, tmpl_op, written,
                   calls, task_info, task_history, tasks>>

\* the server with one request to an endpoint, and one client that waits for
\* the task of that request or for a task the server does not know
ClientInit ==
    /\ Init
    /\ impl = "mcp_server"

ClientNext ==
    \/ \E name \in EndpointInputs : endpoint("c1", name)
    \/ execute_agent_task("c1")
    \/ execute_agent_task_wake("c1")
    \/ wait_for_task_completion
    \/ wait_for_task_completion_loop

ClientSpec == ClientInit /\ [][ClientNext]_vars

\* ====================================================================
\* Properties
\* ====================================================================

\* the call has submitted its prompt and holds a task
Submitted(c) == calls[c].task.status # "none"
Polling(c) == calls[c].pc \in {"loop", "sleep"}
Done(c) == calls[c].pc = "done"

\* the statuses a registry entry ends in
RegistryTerminal == {"completed", "failed", "error", "timeout"}

\* the position of a registry status in Pending -> (Running) -> terminal
Rank(st) ==
    IF st = "absent" THEN 0
    ELSE IF st = "pending" THEN 1
    ELSE IF st = "running" THEN 2
    ELSE 3

\* C1: once the status of a CodegenTask is terminal (completed, failed or error),
\* no later refresh or refresh_sync changes it, in mock mode or against a live
\* backend that may answer with any status.
C1_TerminalStatusNeverChanges ==
    [][cg_task.status \in TerminalStatuses => cg_task'.status = cg_task.status]_vars

\* C2: per task identifier the registry status only moves forward, pending ->
\* (running) -> terminal, and a terminal entry (status, result, completion
\* timestamp) is never written again, in the tasks store of mcp_server and in
\* the task_info dicts of CodegenMCPCallable.task_history, under every
\* interleaving of the calls.
C2_RegistryForwardOnly ==
    [][\A c \in Calls :
          /\ Rank(tasks[c].status) <= Rank(tasks'[c].status)
          /\ tasks[c].status \in RegistryTerminal => tasks'[c] = tasks[c]
          /\ Rank(task_info[c].status) <= Rank(task_info'[c].status)
          /\ task_info[c].status \in RegistryTerminal => task_info'[c] = task_info[c]
     ]_vars

\* C2 witness: an entry of the tasks store is terminal, with its completion
\* timestamp, while the execution of another task is still polling
C2_Witness ==
    \E c, d \in Calls :
        /\ c # d
        /\ tasks[c].status \in {"completed", "failed"}
        /\ tasks[c].completed_at # None
        /\ tasks[d].status = "running"
        /\ calls[d].pc = "sleep"

\* C3: every lifecycle implementation enforces a local deadline: a call that
\* is polling ends (or is cancelled), unless the backend reports a terminal
\* status; no call polls forever against a backend that stays non-terminal.
C3_LocalDeadline ==
    \A c \in Calls :
        Polling(c) ~> (\/ Done(c)
                       \/ calls[c].pc = "cancelled"
                       \/ calls[c].task.status \in TerminalStatuses)

\* the deadline of _execute_template / execute_custom_template has passed
DeadlinePassed(c) == impl = "callable" /\ Submitted(c) /\ calls[c].elapsed >= timeout

\* C4: in _execute_template and execute_custom_template, a call that reaches
\* the deadline returns (does not raise) an outcome with status "timeout", and
\* its history entry ends with status "timeout" and a timestamp, never
\* "completed".
C4_TimeoutOutcome ==
    \A c \in Calls :
        (DeadlinePassed(c) /\ Done(c)) =>
            /\ calls[c].outcome.kind = "dict"
            /\ calls[c].outcome.status = "timeout"
            /\ task_info[c].status = "timeout"
            /\ task_info[c].timestamp # None

\* C4 witness: a call of each function has timed out on a backend still running
C4_Witness ==
    \E c, d \in Calls :
        /\ DeadlinePassed(c) /\ Done(c) /\ calls[c].fn = "_execute_template"
        /\ calls[c].task.status = "running"
        /\ DeadlinePassed(d) /\ Done(d) /\ calls[d].fn = "execute_custom_template"
        /\ calls[d].task.status = "pending"

\* the call returned a failure outcome, or (a background execution) marked
\* its registry entry failed
FailureOutcome(c) ==
    \/ calls[c].outcome.kind = "dict" /\ calls[c].outcome.status \in {"failed", "error"}
    \/ impl = "mcp_server" /\ tasks[c].status \in {"failed", "error"}

\* C5: a poll that reports status error is treated like failed: the next
\* thing the call does is to end with a failure outcome; it does not poll again.
C5_ErrorStopsPolling ==
    [][\A c \in Calls :
          (calls[c].task.status = "error" /\ ~Done(c) /\ calls'[c] # calls[c])
              => (calls'[c].pc = "done" /\ FailureOutcome(c)')
     ]_vars

\* the call returned a success outcome carrying r
SuccessWith(c, r) ==
    \/ impl = "callable" /\ calls[c].outcome = ReturnedResult(r)
    \/ impl = "mcp_server" /\ tasks[c].result = r
    \/ /\ impl \in {"codegen_mcp_server", "CodegenAgent", "example_server"}
       /\ calls[c].outcome = ReturnedDict("completed", r, None)

\* the registry entry of the call, if its program keeps one, is completed and
\* has its completion timestamp
RegistryCompleted(c) ==
    /\ impl = "callable" =>
          task_info[c].status = "completed" /\ task_info[c].timestamp # None
    /\ impl = "mcp_server" =>
          tasks[c].status = "completed" /\ tasks[c].completed_at # None

\* C6: when the polls of a call report pending, running and then completed
\* with result R, the call stops at that poll: it polls no more, and it ends
\* with a success outcome carrying exactly R and with its registry entry
\* completed, with a completion timestamp.
C6_LifecycleCompletes ==
    /\ [](\A c \in Calls :
            (calls[c].log = LifecycleScript /\ Done(c)) =>
                /\ SuccessWith(c, calls[c].task.result)
                /\ RegistryCompleted(c))
    /\ [][\A c \in Calls :
            (calls[c].log = LifecycleScript /\ calls'[c] # calls[c]) =>
                /\ ~Done(c) /\ calls'[c].pc = "done"
                /\ calls'[c].log = LifecycleScript
                /\ calls'[c].task = calls[c].task
         ]_vars
    /\ [](\A c \in Calls :
            (calls[c].log = LifecycleScript /\ impl # "example_server") => Done(c))

\* C6 witness: a call of the callable and an execution of mcp_server have seen
\* pending, running, completed(R2) and ended
C6_Witness ==
    \E c \in Calls :
        /\ calls[c].log = LifecycleScript
        /\ Done(c)
        /\ calls[c].task.result = <<"R2">>
        /\ impl \in {"callable", "mcp_server"}
        /\ calls[c].polls = 3

\* C7: when a poll reports failed or error together with an error message m,
\* the failure outcome of the call carries m as its message.
C7_FailureCarriesBackendMessage ==
    \A c \in Calls :
        (/\ Done(c)
         /\ calls[c].raised = None
         /\ calls[c].task.status \in {"failed", "error"}
         /\ calls[c].task.error # None
         /\ calls[c].outcome.kind = "dict"
         /\ calls[c].outcome.status \in {"failed", "error"})
        => calls[c].outcome.message = calls[c].task.error

\* C8: a failed or error status reported by the backend reaches the caller as
\* a returned value; it never leaves the lifecycle function as an exception.
C8_FailureIsNotRaised ==
    \A c \in Calls :
        (/\ Done(c)
         /\ calls[c].raised = None
         /\ calls[c].task.status \in {"failed", "error"})
        => calls[c].outcome.kind # "raise"

\* C9: in CodegenAgent.run, run_codegen_agent of the example server and
\* _execute_template / execute_custom_template, an exception raised by the
\* backend client while submitting or polling ends the call with a returned
\* outcome of status "error" whose message is the text of the exception.
C9_ExceptionBecomesErrorOutcome ==
    \A c \in Calls :
        (impl \in {"CodegenAgent", "example_server", "callable"}
         /\ calls[c].raised # None)
        => /\ Done(c)
           /\ calls[c].outcome = ReturnedDict("error", None, calls[c].raised[1].message)

\* C9 witness: a poll of a submitted task raised "E2" and the call returned
C9_Witness ==
    \E c \in Calls :
        /\ impl = "callable"
        /\ Submitted(c)
        /\ calls[c].polls = 2
        /\ calls[c].raised = <<PyException(<<"E2">>)>>
        /\ calls[c].outcome.kind = "dict"

\* the registry of the program shows an entry for call c with a failure status
RecordedAsFailed(c) ==
    \/ /\ impl = "callable"
       /\ \E i \in 1..Len(task_history) : task_history[i] = c
       /\ task_info[c].status \in {"failed", "error"}
    \/ /\ impl = "mcp_server"
       /\ tasks[c].status \in {"failed", "error"}

\* C10: when the submission (agent.run) fails, a registry entry with status
\* failed/error is recorded for the attempt, so that every call that reached
\* submission is visible in the registry.
C10_FailedSubmissionRecorded ==
    \A c \in Calls :
        (impl \in {"callable", "mcp_server"} /\ calls[c].submit_failed /\ Done(c))
        => RecordedAsFailed(c)

\* the call has started to run its function
Started(c) == calls[c].pc \notin {"idle", "scheduled"}

C12_RejectedBeforeBackend ==
    /\ [](\A c \in Calls :
            calls[c].rejected # "" =>
                /\ Done(c)
                /\ calls[c].outcome.kind = "raise"
                /\ calls[c].submits = 0
                /\ ~calls[c].constructed
                /\ calls[c].task = NoTask
                /\ task_info[c] = NoInfo
                /\ tasks[c] = NoEntry
                /\ \A i \in 1..Len(task_history) : task_history[i] # c)
    /\ [][\A c \in Calls :
            (calls[c].rejected = "" /\ calls'[c].rejected # "") => calls[c].pc = "idle"
         ]_vars

\* C12 witness: run_codegen_task without credentials has raised
C12_Witness ==
    \E c \in Calls :
        /\ impl = "codegen_mcp_server"
        /\ calls[c].rejected = "credentials"
        /\ calls[c].outcome = Raised(<<"Missing Codegen credentials.">>)

\* C13: in every state of a task record the result is populated only when the
\* status is completed, and the error detail only when the status is failed
\* or error; the two are never both populated.
C13_ResultErrorExclusive ==
    /\ cg_task.result # None => cg_task.status = "completed"
    /\ cg_task.error # None => cg_task.status \in {"failed", "error"}

\* what a caller can observe of a run or a refresh: the task's status, result
\* and error, or the exception raised
Observable(r) ==
    [status |-> r.task.status, result |-> r.task.result, error |-> r.task.error,
     raised |-> r.raised]

\* C16: from the same task state and for the same backend response, each
\* synchronous operation (Agent.run, Agent.refresh_task_sync,
\* CodegenTask.refresh_sync) and its awaitable counterpart (Agent.run_async,
\* Agent.refresh_task, CodegenTask.refresh) leave the same status, result and
\* error, or raise the same error.
C16_SyncAsyncAgree ==
    /\ cg_task = NoTask =>
          \A resp \in RunResponses :
              Observable(AgentRun("c1", mock_mode, resp))
                  = Observable(AgentRunAsync("c1", mock_mode, resp))
    /\ cg_task # NoTask =>
          \A resp \in PollResponses :
              /\ Observable(refresh_sync(cg_task, resp)) = Observable(refresh(cg_task, resp))
              /\ Observable(refresh_task_sync(cg_task, resp))
                    = Observable(refresh_task(cg_task, resp))

\* C16 witness: a live task that a refresh left failed with the backend's
\* message, after an earlier refresh had completed it
C16_Witness ==
    /\ cg_task.agent = "live"
    /\ cg_task.status = "failed"
    /\ cg_task.error = <<"boom">>
    /\ cg_task.result = <<"R2">>
    /\ cg_raised = None

\* the task is refreshed by the simulation of mock mode
MockTask == cg_task # NoTask /\ cg_task.agent \in {"mock", "none"}

\* C17: in mock mode a freshly submitted task is pending; a poll of a pending
\* task leaves it running, a poll of a running task leaves it completed with a
\* non-null result, and a poll of a completed task changes nothing.
C17_MockSequence ==
    [][/\ (cg_task = NoTask /\ mock_mode /\ cg_task' # NoTask) =>
             (cg_task'.status = "pending" /\ cg_task'.result = None)
       /\ (MockTask /\ cg_task.status = "pending") =>
             (cg_task'.status = "running" /\ cg_task'.result = None)
       /\ (MockTask /\ cg_task.status = "running") =>
             (cg_task'.status = "completed" /\ cg_task'.result # None)
       /\ (MockTask /\ cg_task.status = "completed") => cg_task' = cg_task
      ]_vars

\* C17 witness: the task of a mock-mode agent, completed with its result
C17_Witness ==
    /\ mock_mode
    /\ cg_task.agent = "mock"
    /\ cg_task.status = "completed"
    /\ cg_task.result = <<"Simulated result for task ", "mock_task_", "c1">>
    /\ cg_task.error = None

\* C18: with mock_mode enabled, no sequence of run, run_async, refresh_task,
\* refresh_task_sync, refresh and refresh_sync calls makes an HTTP request.
C18_MockNoHttp == mock_mode => ~cg_http

\* C18 witness: a mock-mode agent ran a task and polled it to completion, and
\* no request was made
C18_Witness ==
    /\ mock_mode
    /\ cg_task.agent = "mock"
    /\ cg_task.status = "completed"
    /\ ~cg_http
    /\ cg_resp = None

\* C20: a non-success HTTP status answered to the submission reaches the
\* caller as an error carrying that status code, which tells it apart from a
\* connection failure and from a response without a task identifier.
C20_RejectionCarriesStatusCode ==
    (cg_task = NoTask /\ cg_resp # None /\ cg_raised # None /\ cg_resp[1].kind = "non200")
        => cg_raised[1].status_code = cg_resp[1].code

\* C14: after the concurrent calls of a run have all returned, the registry
\* holds one entry per call, and the task identifiers of the entries are
\* pairwise distinct.
C14_OneEntryPerCall ==
    (/\ impl \in {"callable", "mcp_server"}
     /\ \A c \in Calls : Done(c) /\ Submitted(c))
    => /\ impl = "callable" =>
            /\ Len(task_history) = Cardinality(Calls)
            /\ \A c, d \in Calls : c # d => task_info[c].task_id # task_info[d].task_id
       /\ impl = "mcp_server" =>
            /\ \A c \in Calls : tasks[c] # NoEntry
            /\ \A c, d \in Calls : c # d => tasks[c].task_id # tasks[d].task_id

\* C15: cancelling an execution of mcp_server during its poll-interval sleep
\* stops its polling, and the registry entry keeps the non-terminal status it
\* had: the cancellation does not mark it completed, failed or timed out.
C15_CancelKeepsEntry ==
    /\ [](\A c \in Calls :
            calls[c].pc = "cancelled" =>
                /\ tasks[c].status \in {"pending", "running"}
                /\ tasks[c].completed_at = None
                /\ tasks[c].result = None)
    /\ [][\A c \in Calls :
            /\ calls'[c].pc = "cancelled" =>
                  (tasks'[c] = tasks[c] /\ calls'[c].polls = calls[c].polls
                   /\ calls'[c].task = calls[c].task)
            /\ calls[c].pc = "cancelled" => calls'[c] = calls[c]
         ]_vars

\* C15 witness: an execution cancelled in its sleep after two polls, its entry
\* still running, while the other execution has completed
C15_Witness ==
    \E c, d \in Calls :
        /\ calls[c].pc = "cancelled"
        /\ calls[c].polls = 2
        /\ tasks[c].status = "running"
        /\ tasks[d].status = "completed"

\* the tokens of a text
Tokens(text) == {text[i] : i \in 1..Len(text)}

\* C19: against the mock backend the completed result is a function of the
\* prompt: two runs with the same prompt return the same result, and the
\* result contains a fragment of the prompt.
C19_MockResultFromPrompt ==
    \A c, d \in Calls :
        (/\ impl = "CodegenAgent" /\ mock_mode
         /\ Done(c) /\ Done(d)
         /\ calls[c].prompt = calls[d].prompt)
        => /\ calls[c].outcome.result = calls[d].outcome.result
           /\ Tokens(calls[c].prompt) \cap Tokens(calls[c].outcome.result) # {}

\* C27: whenever _execute_template or execute_custom_template returns after
\* a successful submission, the history entry of the task is terminal
\* (completed, failed or timeout) with a non-null timestamp, also when a poll
\* raised and the call returned an 'error' outcome.
C27_ReturnedEntryTerminal ==
    \A c \in Calls :
        (impl = "callable" /\ Done(c) /\ Submitted(c)) =>
            /\ task_info[c].status \in {"completed", "failed", "timeout"}
            /\ task_info[c].timestamp # None

\* what a response of the tasks API shows of an entry
WellFormedResponse(e) ==
    /\ e.completed_at # None <=> e.status \in {"completed", "failed"}
    /\ e.status \in {"pending", "running"} => e.result = None

\* C28: every response of get_task_status and list_tasks, in every state the
\* background executions can leave between two suspension points, shows
\* completed_at non-null exactly when the status is completed or failed, and
\* a null result while the status is pending or running.
C28_ReadersSeeWholeEntries ==
    /\ \A c \in Calls :
          get_task_status(tasks, c).status_code = "200"
              => WellFormedResponse(get_task_status(tasks, c).body)
    /\ \A e \in list_tasks(tasks) : WellFormedResponse(e)

\* C28 witness: the list shows a completed entry with its result and
\* timestamp next to an entry that is still running
C28_Witness ==
    /\ impl = "mcp_server"
    /\ \E e \in list_tasks(tasks) :
          e.status = "completed" /\ e.result = <<"R1">> /\ e.completed_at # None
    /\ \E c \in Calls : get_task_status(tasks, c).body.status = "running"

\* C29: a live poll that fails (connection error, non-200 answer, unreadable
\* body) raises CodegenApiError and leaves the task's status, result and error
\* as they were, in refresh_task_sync and in refresh_task.
C29_FailedPollLeavesTask ==
    [][(cg_task # NoTask /\ cg_raised' # None) =>
          /\ cg_raised'[1].cls = "CodegenApiError"
          /\ cg_task' = cg_task
      ]_vars

\* C29 witness: a running live task with its result of an earlier poll, whose
\* last poll raised
C29_Witness ==
    /\ cg_task.agent = "live"
    /\ cg_task.status = "running"
    /\ cg_task.result = <<"R1">>
    /\ cg_raised # None
    /\ cg_raised[1].cls = "CodegenApiError"

\* C21: delete_template on a default key fails after any sequence of template
\* operations (set_template overriding the key included) and leaves the
\* templates as they are, so the six default keys are in the templates in
\* every reachable state; delete_template on an existing key that is not a
\* default key removes it.
C21_DefaultKeysProtected ==
    /\ [](default_templates \subseteq DOMAIN templates)
    /\ []((tmpl_op.op = "delete" /\ tmpl_op.key \in default_templates)
              => tmpl_op.raised # None)
    /\ [][(tmpl_op' # tmpl_op /\ tmpl_op'.op = "delete") =>
             IF tmpl_op'.key \in default_templates
             THEN templates' = templates
             ELSE tmpl_op'.key \in DOMAIN templates =>
                      /\ tmpl_op'.raised = None
                      /\ DOMAIN templates' = DOMAIN templates \ {tmpl_op'.key}
         ]_vars

\* C21 witness: pr_creation was overridden by set_template, and the
\* delete_template of it that followed was refused
C21_Witness ==
    /\ tmpl_op.op = "delete"
    /\ tmpl_op.key = "pr_creation"
    /\ tmpl_op.raised # None
    /\ templates["pr_creation"] = <<"no placeholder here">>
    /\ "review" \in DOMAIN templates

\* C22: get_template(k) returns the template of the most recent write to k
\* that succeeded; set_template(k, v) succeeds for every key; add_template(k, v)
\* writes only when k is absent and otherwise fails and leaves the templates
\* as they are; get_template writes nothing, so repeated calls return the
\* same template.
C22_GetReturnsLastWrite ==
    /\ []((tmpl_op.op = "get" /\ tmpl_op.raised = None /\ written[tmpl_op.key] # None)
              => tmpl_op.returned = written[tmpl_op.key][1])
    /\ [](tmpl_op.op = "set" => tmpl_op.raised = None)
    /\ [][tmpl_op' # tmpl_op =>
             /\ tmpl_op'.op = "set" => templates'[tmpl_op'.key] = tmpl_op'.value
             /\ tmpl_op'.op = "add" =>
                   IF tmpl_op'.key \in DOMAIN templates
                   THEN tmpl_op'.raised # None /\ templates' = templates
                   ELSE tmpl_op'.raised = None
                        /\ templates'[tmpl_op'.key] = tmpl_op'.value
             /\ tmpl_op'.op = "get" =>
                   /\ templates' = templates
                   /\ tmpl_op'.key \in DOMAIN templates =>
                         tmpl_op'.returned = templates[tmpl_op'.key]
         ]_vars

\* C22 witness: get_template returns the template of the last write to the
\* custom key, after a write to the default key
C22_Witness ==
    /\ tmpl_op.op = "get"
    /\ tmpl_op.key = "review"
    /\ tmpl_op.returned = <<"no placeholder here">>
    /\ written["review"] = <<(<<"no placeholder here">>)>>
    /\ written["pr_creation"] = <<(<<"Review: ", CONTEXT>>)>>

\* C23: a call never submits the render of a template that lacks the
\* context placeholder: rendering it fails and no prompt goes to the backend.
C23_RenderRequiresPlaceholder ==
    [][\A c \in Calls :
          (/\ calls[c].pc = "idle"
           /\ calls'[c].submits = 1
           /\ task_info'[c].template_key \in DOMAIN templates)
          => CONTEXT \in Tokens(templates[task_info'[c].template_key])
      ]_vars

\* the prompt a named endpoint or tool owes the backend for a query: its own
\* template with the query in the place of the marker
OwnPrompt(tool, query) ==
    CASE impl = "mcp_server" ->
           LET own == CASE tool = <<"pr-creation">> -> "pr_creation"
                        [] tool = <<"linear-issues">> -> "linear_issues"
                        [] tool = <<"code-generation">> -> "code_generation"
                        [] tool = <<"data-analysis">> -> "data_analysis"
                        [] tool = <<"documentation">> -> "documentation"
                        [] tool = <<"testing-strategy">> -> "testing_strategy"
           IN Format(PROMPT_TEMPLATES[own], query)
      [] impl = "codegen_mcp_server" ->
           Replace(TEMPLATES[tool[2]], AGENTINPUTQUERY, query)
      [] impl = "example_server" ->
           Replace(EXAMPLE_TEMPLATES[tool[1]], AGENT_QUERY, query)

\* the six named endpoints or tools of each server
NamedTools ==
    CASE impl = "mcp_server" ->
           {<<"pr-creation">>, <<"linear-issues">>, <<"code-generation">>,
            <<"data-analysis">>, <<"documentation">>, <<"testing-strategy">>}
      [] impl = "codegen_mcp_server" -> {<<"run_", t>> : t \in DOMAIN TEMPLATES}
      [] impl = "example_server" -> {<<t>> : t \in DOMAIN EXAMPLE_TEMPLATES}
      [] OTHER -> {}

\* C24: the prompt a named endpoint or tool submits to the backend is its own
\* template with the caller's query substituted, never the template of
\* another endpoint; the tools made by create_tool in a loop included.
C24_OwnTemplateSubmitted ==
    \A c \in Calls :
        (calls[c].submits >= 1 /\ calls[c].tool \in NamedTools) =>
            \E query \in Contexts : calls[c].prompt = OwnPrompt(calls[c].tool, query)

\* C24 witness: the generated tool run_endpoint5 has submitted the template of
\* endpoint5 with the query
C24_Witness ==
    /\ impl = "codegen_mcp_server"
    /\ calls["c1"].tool = <<"run_", "endpoint5">>
    /\ calls["c1"].submits = 1
    /\ calls["c1"].prompt = <<"{", "endpoint5", "+", "q", "}">>
    /\ calls["c1"].pc = "done"

C26_WaitOutcome ==
    /\ ~wait.late_request
    /\ wait.pc = "done" =>
          IF wait.seen \in {"completed", "failed"}
          THEN /\ wait.raised = None
               /\ wait.returned # None
               /\ wait.returned[1].status = wait.seen
          ELSE /\ wait.returned = None
               /\ wait.raised # None
               /\ wait.raised[1].cls = "TimeoutError"

\* C30: CodegenAgentServer.run_codegen_agent, once it has submitted the
\* prompt, polls until the task is terminal and returns
\* {'status': 'success', task_id, result} for a completed task and
\* {'status': 'error', task_id, error} for a failed one; with a mock-mode
\* agent it returns success after two polls.
C30_ServerRunReturns ==
    \A c \in Calls :
        (/\ impl = "CodegenAgentServer"
         /\ Done(c)
         /\ calls[c].submits = 1
         /\ ~calls[c].submit_failed) =>
            /\ calls[c].outcome.kind = "dict"
            /\ calls[c].outcome.status \in {"success", "error"}
            /\ mock_mode => (calls[c].outcome.status = "success" /\ calls[c].polls = 2)

====
